---- MODULE Spec2Model ----
(***************************************************************************)
(* A model of review.py (clang-tidy-review): the diff-position lookup, the *)
(* added-line ranges, the parsing of clang-tidy's output into a review and *)
(* the posting of the review without repeating comments.                   *)
(*                                                                         *)
(* Text is modelled as a sequence of tokens (each a TLA+ string).  A token *)
(* is a single character (":", " ", a quote, a digit, "b", "/") or an atomic   *)
(* word that contains none of the characters the program looks for.  The   *)
(* token "warning" is the only token that contains the word warning.       *)
(***************************************************************************)
EXTENDS Integers, Sequences, FiniteSets, TLC

VARIABLES
    raw_diff,                \* the PR's diff text, as GitHub returns it
    tidy_output,             \* what clang-tidy prints for this PR (stdout lines)
    pc,                      \* main's position
    run,                     \* which run of main this is (1-based)
    diff,                    \* main: diff (list of PatchedFile)
    line_ranges,             \* main: line_ranges
    files,                   \* main: files
    contents,                \* main: clang_tidy_warnings
    lookup,                  \* main: lookup
    review,                  \* main: review (post_review filters its comments)
    created,                 \* the review as printed by main after make_review
    error,                   \* the exception that ended the run, or "none"
    existing,                \* the remote comments a post_* function fetched
    total_comments,          \* the value of ::set-output total_comments, or -1
    api_calls,               \* the remote writes of this run, in order
    review_comments,         \* remote: the pull request's review comments
    issue_comments           \* remote: the pull request's issue comments

vars == <<raw_diff, tidy_output, pc, run, diff, line_ranges, files, contents,
          lookup, review, created, error, existing, total_comments, api_calls,
          review_comments, issue_comments>>

(***************************************************************************)
(* Bounds of the model.                                                    *)
(***************************************************************************)
MaxRawLines == 6
MaxLines == 4
MaxRuns == 2
MaxDedupLen == 2

(***************************************************************************)
(* Program constants.                                                      *)
(***************************************************************************)
DIFF_HEADER_LINE_LENGTH == 5

\* Python's None for a line number (line numbers are >= 1).
None == 0

(***************************************************************************)
(* Sequence helpers.                                                       *)
(***************************************************************************)
Range(s) == {s[i] : i \in 1..Len(s)}

\* s[n:] of Python: s without its first n elements.
Drop(s, n) == IF n >= Len(s) THEN <<>> ELSE SubSeq(s, n + 1, Len(s))

RECURSIVE SeqsUpTo(_, _)
\* All sequences over S of length at most n.
SeqsUpTo(S, n) ==
    IF n = 0 THEN {<<>>}
    ELSE LET shorter == SeqsUpTo(S, n - 1)
         IN  shorter \cup {Append(s, x) : s \in {t \in shorter : Len(t) = n - 1}, x \in S}

(***************************************************************************)
(* The diff text and unidiff's parse of it (get_pr_diff).  A raw entry is  *)
(* a file header (its target file name and the number of header lines      *)
(* before the first hunk), a hunk header (how many unchanged lines it      *)
(* skips) or a diff line (context " ", added "+", removed "-").            *)
(***************************************************************************)
FileA == <<"b", "/", "a.c">>
FileB == <<"b", "/", "b.c">>
DevNull == <<"/", "d", "ev/null">>

RawFile(name, hdr) == [t |-> "file", name |-> name, n |-> hdr, kind |-> ""]
RawHunk(skip) == [t |-> "hunk", name |-> <<>>, n |-> skip, kind |-> ""]
RawLine(kind) == [t |-> "line", name |-> <<>>, n |-> 0, kind |-> kind]

RawAlphabet ==
    {RawFile(FileA, 4), RawFile(FileB, 4), RawFile(DevNull, 5),
     RawHunk(1), RawHunk(2), RawLine(" "), RawLine("+"), RawLine("-")}

\* Whether entry x may follow the text r in a diff git produces: a hunk
\* belongs to a file, a line to a hunk, a hunk is never empty, a path is the
\* target of one file only, and a deleted file has only removed lines.
LastFileIdx(r) ==
    LET F == {i \in 1..Len(r) : r[i].t = "file"}
    IN  IF F = {} THEN 0 ELSE CHOOSE i \in F : \A j \in F : j <= i

HunkChanged(r) ==
    \* the last hunk of r holds an added or a removed line
    LET H == {i \in 1..Len(r) : r[i].t = "hunk"}
        h == CHOOSE i \in H : \A j \in H : j <= i
    IN  \E i \in h + 1..Len(r) : r[i].kind \in {"+", "-"}

CanFollow(r, x) ==
    LET f == LastFileIdx(r)
        closed == r = <<>> \/ r[Len(r)].t = "file"
                    \/ (r[Len(r)].t = "line" /\ HunkChanged(r))
    IN  CASE x.t = "file" ->
               /\ closed
               /\ x.name # DevNull => \A i \in 1..Len(r) : r[i].name # x.name
          [] x.t = "hunk" -> f > 0 /\ closed
          [] OTHER ->
               /\ f > 0 /\ r[Len(r)].t # "file"
               /\ r[f].name = DevNull => x.kind = "-"

Complete(r) ==
    r = <<>> \/ r[Len(r)].t = "file" \/ (r[Len(r)].t = "line" /\ HunkChanged(r))

RECURSIVE RawPrefixes(_)
\* Every prefix, of at most n entries, of a diff text.
RawPrefixes(n) ==
    IF n = 0 THEN {<<>>}
    ELSE LET shorter == RawPrefixes(n - 1)
         IN  shorter \cup
             UNION {{Append(r, x) : x \in {y \in RawAlphabet : CanFollow(r, y)}} :
                    r \in {s \in shorter : Len(s) = n - 1}}

RawDiffs == {r \in RawPrefixes(MaxRawLines) : Complete(r)}

RECURSIVE SortedSeq(_)
\* The elements of a finite set of integers, ascending.
SortedSeq(S) ==
    IF S = {} THEN <<>>
    ELSE LET m == CHOOSE x \in S : \A y \in S : x <= y
         IN  <<m>> \o SortedSeq(S \ {m})

RECURSIVE SumSkips(_, _, _)
\* The unchanged lines skipped by the hunk headers among r[lo..hi].
SumSkips(r, lo, hi) ==
    IF lo > hi THEN 0
    ELSE (IF r[hi].t = "hunk" THEN r[hi].n ELSE 0) + SumSkips(r, lo, hi - 1)

\* The end of the block (file or hunk) of r that starts at entry i: the entry
\* before the next entry whose kind is in stops, or the end of r.
BlockEnd(r, i, stops) ==
    LET N == {j \in i + 1..Len(r) : r[j].t \in stops}
    IN  IF N = {} THEN Len(r) ELSE (CHOOSE j \in N : \A k \in N : j <= k) - 1

\* unidiff's Line for entry i of file entry f: the first hunk of a file starts
\* at line skip, a later one skips that many unchanged lines; diff_line_no
\* counts the lines of the file's own diff text, header included.
ParseLine(r, f, i) ==
    LET kept == Cardinality({j \in f + 1..i : r[j].t = "line" /\ r[j].kind # "-"})
        old == Cardinality({j \in f + 1..i : r[j].t = "line" /\ r[j].kind # "+"})
        skipped == SumSkips(r, f + 1, i) - 1
    IN  [is_added |-> r[i].kind = "+",
         is_removed |-> r[i].kind = "-",
         target_line_no |-> IF r[i].kind = "-" THEN None ELSE kept + skipped,
         source_line_no |-> IF r[i].kind = "+" THEN None ELSE old + skipped,
         diff_line_no |-> r[f].n + (i - f)]

ParseHunk(r, f, h) ==
    LET idx == SortedSeq(h + 1..BlockEnd(r, h, {"hunk", "file"}))
    IN  [k \in 1..Len(idx) |-> ParseLine(r, f, idx[k])]

ParseFile(r, f) ==
    LET last == BlockEnd(r, f, {"file"})
        idx == SortedSeq({h \in f + 1..last : r[h].t = "hunk"})
    IN  [target_file |-> r[f].name,
         hunks |-> [k \in 1..Len(idx) |-> ParseHunk(r, f, idx[k])]]

\* get_pr_diff: one PatchedFile per file of the diff, each parsed on its own.
get_pr_diff(r) ==
    LET idx == SortedSeq({f \in 1..Len(r) : r[f].t = "file"})
    IN  [k \in 1..Len(idx) |-> ParseFile(r, idx[k])]

\* The lines of a PatchedFile, in order, over all its hunks.
RECURSIVE Flatten(_)
Flatten(hunks) ==
    IF hunks = <<>> THEN <<>> ELSE Head(hunks) \o Flatten(Tail(hunks))

FileLines(file) == Flatten(file.hunks)

(***************************************************************************)
(* make_file_line_lookup.  A dict is a function on its keys.               *)
(***************************************************************************)
\* d[k] = v of Python.
DictSet(d, k, v) == [x \in DOMAIN d \cup {k} |-> IF x = k THEN v ELSE d[x]]

\* A lookup that forgets to leave the removed lines out.
IndexableAnyLine(line) == TRUE

Indexable(line) == ~line.is_removed

Position(line) == line.diff_line_no - DIFF_HEADER_LINE_LENGTH

RECURSIVE LookupOfLines(_, _)
\* The inner loops: the table of one file after its lines, starting from tbl.
LookupOfLines(lines, tbl) ==
    IF lines = <<>> THEN tbl
    ELSE LET line == Head(lines)
         IN  LookupOfLines(Tail(lines),
                 IF Indexable(line)
                 THEN DictSet(tbl, line.target_line_no, Position(line))
                 ELSE tbl)

RECURSIVE LookupOfFiles(_, _)
LookupOfFiles(d, lk) ==
    IF d = <<>> THEN lk
    ELSE LET file == Head(d)
             filename == Drop(file.target_file, 2)
         IN  LookupOfFiles(Tail(d),
                 DictSet(lk, filename, LookupOfLines(FileLines(file), <<>>)))

make_file_line_lookup(d) == LookupOfFiles(d, <<>>)

(***************************************************************************)
(* get_line_ranges.                                                        *)
(***************************************************************************)
AddedLines(file) ==
    LET added == SelectSeq(FileLines(file), LAMBDA line : line.is_added)
    IN  [k \in 1..Len(added) |-> added[k].target_line_no]

\* The key of itertools.groupby for element ix of enumerate(added_lines):
\* enumerate counts from 0.
\* The key with the wrong sign: index plus value.
GroupKeySum(added, ix) == (ix - 1) + added[ix]

GroupKey(added, ix) == (ix - 1) - added[ix]

RECURSIVE GroupBy(_, _, _)
\* itertools.groupby over enumerate(added): the maximal runs of consecutive
\* elements with equal keys, each run as the list of its values; cur is the
\* run being collected when element ix is read.
GroupBy(added, ix, cur) ==
    IF ix > Len(added) THEN (IF cur = <<>> THEN <<>> ELSE <<cur>>)
    ELSE IF cur # <<>> /\ GroupKey(added, ix) = GroupKey(added, ix - 1)
         THEN GroupBy(added, ix + 1, Append(cur, added[ix]))
         ELSE (IF cur = <<>> THEN <<>> ELSE <<cur>>)
                  \o GroupBy(added, ix + 1, <<added[ix]>>)

RangeOf(groups) == <<groups[1], groups[Len(groups)]>>

\* lines_by_file.setdefault(name, []).append(rng); the dict keeps the order
\* in which its keys were first set.
SetDefaultAppend(by_file, name, rng) ==
    IF \E k \in 1..Len(by_file) : by_file[k].name = name
    THEN [k \in 1..Len(by_file) |->
            IF by_file[k].name = name
            THEN [by_file[k] EXCEPT !.lines = Append(@, rng)]
            ELSE by_file[k]]
    ELSE Append(by_file, [name |-> name, lines |-> <<rng>>])

RECURSIVE AppendRanges(_, _, _)
AppendRanges(by_file, name, groups) ==
    IF groups = <<>> THEN by_file
    ELSE AppendRanges(SetDefaultAppend(by_file, name, RangeOf(Head(groups))),
                      name, Tail(groups))

RECURSIVE RangesOfFiles(_, _)
RangesOfFiles(d, by_file) ==
    IF d = <<>> THEN by_file
    ELSE LET filename == Head(d)
         IN  RangesOfFiles(Tail(d),
                 AppendRanges(by_file, Drop(filename.target_file, 2),
                              GroupBy(AddedLines(filename), 1, <<>>)))

\* The list of {"name", "lines"} records that is serialised as the line filter.
get_line_ranges(d) == RangesOfFiles(d, <<>>)

(***************************************************************************)
(* Python's string operations, on token sequences.                         *)
(***************************************************************************)
Space == " "
Quote == "'"
\* The token for the character ` (which a TLA+ string cannot hold).
Backquote == "<backquote>"
Digits == {"0", "1", "2", "3", "4", "5", "6", "7", "8", "9"}
DigitValue(c) ==
    CASE c = "0" -> 0 [] c = "1" -> 1 [] c = "2" -> 2 [] c = "3" -> 3
      [] c = "4" -> 4 [] c = "5" -> 5 [] c = "6" -> 6 [] c = "7" -> 7
      [] c = "8" -> 8 [] OTHER -> 9

\* "warning" in line
HasWarning(line) == "warning" \in Range(line)

\* A loop that never skips.
StartsWithWarningNever(line) == FALSE

\* line.startswith("warning")
StartsWithWarning(line) == line # <<>> /\ line[1] = "warning"

RECURSIVE SplitEvery(_, _, _)
\* A split that ignores maxsplit.
SplitEvery(s, sep, maxsplit) ==
    LET at == {i \in 1..Len(s) : s[i] = sep}
    IN  IF at = {} THEN <<s>>
        ELSE LET i == CHOOSE j \in at : \A k \in at : j <= k
             IN  <<SubSeq(s, 1, i - 1)>> \o SplitEvery(Drop(s, i), sep, maxsplit)

RECURSIVE Split(_, _, _)
\* s.split(sep, maxsplit): cut at the first maxsplit separators.
Split(s, sep, maxsplit) ==
    LET at == {i \in 1..Len(s) : s[i] = sep}
    IN  IF maxsplit = 0 \/ at = {} THEN <<s>>
        ELSE LET i == CHOOSE j \in at : \A k \in at : j <= k
             IN  <<SubSeq(s, 1, i - 1)>> \o Split(Drop(s, i), sep, maxsplit - 1)

IsPrefix(p, s) == Len(p) <= Len(s) /\ SubSeq(s, 1, Len(p)) = p

RECURSIVE Replace(_, _, _)
\* s.replace(old, new), old not empty: every occurrence, left to right.
Replace(s, old, new) ==
    IF s = <<>> THEN <<>>
    ELSE IF IsPrefix(old, s) THEN new \o Replace(Drop(s, Len(old)), old, new)
    ELSE <<Head(s)>> \o Replace(Tail(s), old, new)

RECURSIVE LStrip(_)
LStrip(s) == IF s # <<>> /\ Head(s) = Space THEN LStrip(Tail(s)) ELSE s

RECURSIVE RStrip(_)
RStrip(s) ==
    IF s # <<>> /\ s[Len(s)] = Space THEN RStrip(SubSeq(s, 1, Len(s) - 1)) ELSE s

\* s.strip() of a text without line breaks.
Strip(s) == RStrip(LStrip(s))

\* int(s): the decimal value; IntOk says whether int accepts s.
IntOk(s) == Strip(s) # <<>> /\ \A i \in 1..Len(Strip(s)) : Strip(s)[i] \in Digits

RECURSIVE DecimalValue(_)
DecimalValue(ds) ==
    IF ds = <<>> THEN 0
    ELSE 10 * DecimalValue(SubSeq(ds, 1, Len(ds) - 1)) + DigitValue(ds[Len(ds)])

int(s) == DecimalValue(Strip(s))

\* os.getcwd(), with its trailing separator, as one token, and
\* os.path.relpath(full_path, root); relpath rejects the empty path.
RootTok == "/w/"

RelPathOk(full_path) == full_path # <<>>

relpath(full_path) ==
    IF Head(full_path) = RootTok
    THEN (IF Tail(full_path) = <<>> THEN <<".">> ELSE Tail(full_path))
    ELSE IF Head(full_path) = "/" THEN <<"..", "/">> \o Tail(full_path)
    ELSE full_path

(***************************************************************************)
(* A text with line breaks is the sequence of its lines (never empty: the  *)
(* empty text is one empty line).  textwrap.dedent and str.strip.          *)
(***************************************************************************)
Blank(line) == \A i \in 1..Len(line) : line[i] = Space

Indent(line) == Len(line) - Len(LStrip(line))

Min(S) == CHOOSE x \in S : \A y \in S : x <= y

\* textwrap.dedent: whitespace-only lines become empty, and the margin common
\* to the other lines is removed from them.
dedent(text) ==
    LET inked == {i \in 1..Len(text) : ~Blank(text[i])}
        margin == IF inked = {} THEN 0 ELSE Min({Indent(text[i]) : i \in inked})
    IN  [i \in 1..Len(text) |->
            IF Blank(text[i]) THEN <<>> ELSE Drop(text[i], margin)]

\* text.strip(): white space and line breaks removed at both ends.
StripText(text) ==
    LET inked == {i \in 1..Len(text) : ~Blank(text[i])}
    IN  IF inked = {} THEN << <<>> >>
        ELSE LET f == Min(inked)
                 l == CHOOSE i \in inked : \A j \in inked : j <= i
             IN  [i \in 1..(l - f + 1) |->
                    LET ln == text[f + i - 1]
                        a == IF i = 1 THEN LStrip(ln) ELSE ln
                    IN  IF i = l - f + 1 THEN RStrip(a) ELSE a]

(***************************************************************************)
(* make_review.                                                            *)
(***************************************************************************)
RECURSIVE CollectBodyNoBreak(_, _, _, _)
\* An inner loop without its break: the body runs to the end of the input.
CollectBodyNoBreak(rest, full_path, rel_path, body) ==
    IF rest = <<>> THEN body
    ELSE CollectBodyNoBreak(Tail(rest), full_path, rel_path,
                            Append(body, Replace(Head(rest), full_path, rel_path)))

RECURSIVE CollectBody(_, _, _, _)
\* The inner loop: body after the lines of rest up to the first one that
\* holds "warning", each with full_path replaced by rel_path.
CollectBody(rest, full_path, rel_path, body) ==
    IF rest = <<>> \/ HasWarning(Head(rest)) THEN body
    ELSE CollectBody(Tail(rest), full_path, rel_path,
                     Append(body, Replace(Head(rest), full_path, rel_path)))

\* warning.strip().replace("'", "`")
Message(warning) ==
    LET w == Strip(warning)
    IN  [i \in 1..Len(w) |-> IF w[i] = Quote THEN Backquote ELSE w[i]]

\* The f-string: the message, an empty line, and the body dedented and
\* stripped inside a cpp fence.
comment_body(warning, body) ==
    [message |-> Message(warning), fenced |-> StripText(dedent(body))]

\* A position that is one line off.
LookupPositionOff(lk, rel_path, line_no) == lk[rel_path][line_no] + 1

\* lookup[rel_path][int(source_line)], both keys present.
LookupPosition(lk, rel_path, line_no) == lk[rel_path][line_no]

\* The comment for the marker line contents[num], or the exception raised
\* while building it.
Comment(cont, lk, num) ==
    LET fields == Split(cont[num], ":", 3)
    IN  IF Len(fields) # 4 THEN [error |-> "ValueError"]
        ELSE LET full_path == fields[1]
                 source_line == fields[2]
                 warning == fields[4]
             IN  IF ~RelPathOk(full_path) THEN [error |-> "ValueError"]
                 ELSE LET rel_path == relpath(full_path)
                          body == CollectBody(Drop(cont, num), full_path,
                                              rel_path, << <<>> >>)
                      IN  IF rel_path \notin DOMAIN lk THEN [error |-> "KeyError"]
                          ELSE IF ~IntOk(source_line) THEN [error |-> "ValueError"]
                          ELSE IF int(source_line) \notin DOMAIN lk[rel_path]
                               THEN [error |-> "KeyError"]
                          ELSE [error |-> "none",
                                comment |->
                                    [path |-> rel_path,
                                     body |-> comment_body(warning, body),
                                     position |->
                                         LookupPosition(lk, rel_path,
                                                        int(source_line))]]

RECURSIVE ReviewLoop(_, _, _, _)
\* The outer loop from line num on, with the comments made so far.
ReviewLoop(cont, lk, num, comments) ==
    IF num > Len(cont) THEN [error |-> "none", comments |-> comments]
    ELSE IF ~HasWarning(cont[num]) THEN ReviewLoop(cont, lk, num + 1, comments)
    ELSE IF StartsWithWarning(cont[num])
         THEN ReviewLoop(cont, lk, num + 1, comments)
    ELSE LET c == Comment(cont, lk, num)
         IN  IF c.error # "none" THEN [error |-> c.error, comments |-> <<>>]
             ELSE ReviewLoop(cont, lk, num + 1, Append(comments, c.comment))

\* make_review's result: the Review, or the exception that ended it.
make_review(cont, lk) ==
    LET r == ReviewLoop(cont, lk, 1, <<>>)
    IN  [error |-> r.error,
         review |-> [body |-> "clang-tidy made some suggestions",
                     event |-> "COMMENT",
                     comments |-> r.comments]]

NoReview == [body |-> "", event |-> "", comments |-> <<>>]

(***************************************************************************)
(* post_lgtm_comment and post_review, and the pull request they talk to.   *)
(***************************************************************************)
BODY == "clang-tidy review says \"All clean, LGTM! :+1:\""

\* A main that never takes the all-clean path.
AllCleanNever(rv) == FALSE

\* review["comments"] == [] in main
AllClean(rv) == rv.comments = <<>>

\* A scan that looks at the first issue comment only.
AlreadyPostedFirst(comments) == comments # <<>> /\ comments[1] = BODY

AlreadyPosted(comments) == \E i \in 1..Len(comments) : comments[i] = BODY

\* A comparison that leaves the body out.
SameCommentNoBody(review_comment, comment) ==
    /\ review_comment.path = comment.path
    /\ review_comment.position = comment.position

SameComment(review_comment, comment) ==
    /\ review_comment.path = comment.path
    /\ review_comment.position = comment.position
    /\ review_comment.body = comment.body

\* A loop that filters the given comments afresh for each remote comment,
\* so that only the last remote comment counts.
FilterPostedLast(review_comments_, comments) ==
    IF comments = <<>> THEN review_comments_
    ELSE SelectSeq(review_comments_,
                   LAMBDA rc : ~SameComment(rc, comments[Len(comments)]))

RECURSIVE FilterPosted(_, _)
\* The loop of post_review: the review's comments, filtered once for each
\* remote comment.
FilterPosted(review_comments_, comments) ==
    IF comments = <<>> THEN review_comments_
    ELSE FilterPosted(
             SelectSeq(review_comments_,
                       LAMBDA rc : ~SameComment(rc, Head(comments))),
             Tail(comments))

(***************************************************************************)
(* The inputs of the model.                                                *)
(***************************************************************************)
PathA == <<RootTok, "a.c">>
PathB == <<RootTok, "b.c">>

\* /w/a.c:1:7: warning: unused 'x'
LineA1 == PathA \o <<":", "1", ":", "7", ":", Space, "warning", ":", Space,
                     "unused", Space, Quote, "x", Quote>>
\* /w/b.c:2:1: warning: y
LineB2 == PathB \o <<":", "2", ":", "1", ":", Space, "warning", ":", Space, "y">>
\* warning: z            (a diagnostic without a path)
LineNoPath == <<"warning", ":", Space, "z">>
\*   int /w/a.c;         (an indented context line that names the file)
LineContext == <<Space, Space, "int", Space, RootTok, "a.c", ";">>
\*      ^
LineCaret == <<Space, Space, Space, Space, "^">>
\* 2 warnings generated.
LineSummary == <<"2", Space, "warning", "s", Space, "generated.">>

TidyLines == {LineA1, LineB2, LineNoPath, LineContext, LineCaret, LineSummary}

\* a.c with lines 1-2 added, b.c with line 3 added after context line 2.
DiffTwoFiles ==
    <<RawFile(FileA, 4), RawHunk(1), RawLine("+"), RawLine("+"),
      RawFile(FileB, 4), RawHunk(2), RawLine(" "), RawLine("+")>>
\* a.c with line 1 added, b.c with line 1 replaced (its line 2 is not in the diff).
DiffLineGone ==
    <<RawFile(FileA, 4), RawHunk(1), RawLine("+"),
      RawFile(FileB, 4), RawHunk(1), RawLine("-"), RawLine("+")>>
\* a.c with line 2 replaced (its line 1 is not in the diff), b.c untouched.
DiffFileGone == <<RawFile(FileA, 4), RawHunk(2), RawLine("-"), RawLine("+")>>
\* a deleted file only.
DiffDeleted == <<RawFile(DevNull, 5), RawHunk(1), RawLine("-")>>

ExampleDiffs == {DiffTwoFiles, DiffLineGone, DiffFileGone, DiffDeleted}

\* The files the include patterns (*.[ch], ...) match and the exclude
\* patterns do not.
Included(f) == f \in {<<"a.c">>, <<"b.c">>}

\* The comments of the reviews and of the pull requests that post_review is
\* tried on alone.
DedupComments ==
    [path : {<<"a.c">>, <<"b.c">>}, position : {1, 2},
     body : {comment_body(<<"m">>, << <<>> >>), comment_body(<<"n">>, << <<>> >>)}]

(***************************************************************************)
(* main, one action for each step.                                         *)
(***************************************************************************)
Locals == <<diff, line_ranges, files, contents, lookup, review, created,
            error, existing, total_comments, api_calls>>
Remote == <<review_comments, issue_comments>>
Inputs == <<raw_diff, tidy_output>>

InitLocals ==
    /\ diff = <<>>
    /\ line_ranges = <<>>
    /\ files = <<>>
    /\ contents = <<>>
    /\ lookup = <<>>
    /\ review = NoReview
    /\ created = NoReview
    /\ error = "none"
    /\ existing = <<>>
    /\ total_comments = -1
    /\ api_calls = <<>>

Init ==
    /\ raw_diff \in ExampleDiffs
    /\ tidy_output \in SeqsUpTo(TidyLines, MaxLines)
    /\ review_comments = <<>>
    /\ issue_comments = <<"Thanks!">>
    /\ pc = "start"
    /\ run = 1
    /\ InitLocals

\* diff = get_pr_diff(repo, pr_number, token)
GetPrDiff ==
    /\ pc = "start"
    /\ diff' = get_pr_diff(raw_diff)
    /\ pc' = "ranges"
    /\ UNCHANGED <<Inputs, Remote, run, line_ranges, files, contents, lookup,
                   review, created, error, existing, total_comments, api_calls>>

\* line_ranges = get_line_ranges(diff)
GetLineRanges ==
    /\ pc = "ranges"
    /\ line_ranges' = get_line_ranges(diff)
    /\ pc' = "files"
    /\ UNCHANGED <<Inputs, Remote, run, diff, files, contents, lookup,
                   review, created, error, existing, total_comments, api_calls>>

\* The include and exclude patterns; main returns when no file is left.
SelectFiles ==
    /\ pc = "files"
    /\ LET changed_files == [k \in 1..Len(diff) |-> Drop(diff[k].target_file, 2)]
           chosen == SelectSeq(changed_files, Included)
       IN  /\ files' = chosen
           /\ pc' = IF chosen = <<>> THEN "done_nofiles" ELSE "tidy"
    /\ UNCHANGED <<Inputs, Remote, run, diff, line_ranges, contents, lookup,
                   review, created, error, existing, total_comments, api_calls>>

\* clang_tidy_warnings = get_clang_tidy_warnings(...): the lines clang-tidy
\* printed, or CalledProcessError when it exits with a failure.
GetClangTidyWarnings ==
    /\ pc = "tidy"
    /\ \/ /\ contents' = tidy_output
          /\ pc' = "lookup"
          /\ UNCHANGED error
       \/ /\ error' = "CalledProcessError"
          /\ pc' = "crashed"
          /\ UNCHANGED contents
    /\ UNCHANGED <<Inputs, Remote, run, diff, line_ranges, files, lookup,
                   review, created, existing, total_comments, api_calls>>

\* lookup = make_file_line_lookup(diff)
MakeFileLineLookup ==
    /\ pc = "lookup"
    /\ lookup' = make_file_line_lookup(diff)
    /\ pc' = "review"
    /\ UNCHANGED <<Inputs, Remote, run, diff, line_ranges, files, contents,
                   review, created, error, existing, total_comments, api_calls>>

\* review = make_review(clang_tidy_warnings, lookup); an exception ends main.
MakeReview ==
    /\ pc = "review"
    /\ LET r == make_review(contents, lookup)
       IN  IF r.error # "none"
           THEN /\ error' = r.error
                /\ pc' = "crashed"
                /\ UNCHANGED <<review, created>>
           ELSE /\ review' = r.review
                /\ created' = r.review
                /\ pc' = "post"
                /\ UNCHANGED error
    /\ UNCHANGED <<Inputs, Remote, run, diff, line_ranges, files, contents,
                   lookup, existing, total_comments, api_calls>>

\* if review["comments"] == []: post_lgtm_comment(pull_request); return
PostLgtm ==
    /\ pc = "post"
    /\ AllClean(review)
    /\ existing' = issue_comments
    /\ IF AlreadyPosted(issue_comments)
       THEN UNCHANGED <<issue_comments, api_calls>>
       ELSE /\ issue_comments' = Append(issue_comments, BODY)
            /\ api_calls' = Append(api_calls, "create_issue_comment")
    /\ pc' = "done_lgtm"
    /\ UNCHANGED <<Inputs, run, diff, line_ranges, files, contents, lookup,
                   review, created, error, total_comments, review_comments>>

\* post_review(pull_request, review)
PostReview ==
    /\ pc = "post"
    /\ ~AllClean(review)
    /\ existing' = review_comments
    /\ LET left == FilterPosted(review.comments, review_comments)
       IN  /\ review' = [review EXCEPT !.comments = left]
           /\ total_comments' = Len(left)
           /\ IF left = <<>>
              THEN UNCHANGED <<review_comments, api_calls>>
              ELSE /\ review_comments' = review_comments \o left
                   /\ api_calls' = Append(api_calls, "create_review")
    /\ pc' = "done_review"
    /\ UNCHANGED <<Inputs, run, diff, line_ranges, files, contents, lookup,
                   created, error, issue_comments>>

\* The workflow runs main again on the same pull request.
Rerun ==
    /\ pc \in {"done_nofiles", "done_lgtm", "done_review", "crashed"}
    /\ run < MaxRuns
    /\ run' = run + 1
    /\ pc' = "start"
    /\ diff' = <<>>
    /\ line_ranges' = <<>>
    /\ files' = <<>>
    /\ contents' = <<>>
    /\ lookup' = <<>>
    /\ review' = NoReview
    /\ created' = NoReview
    /\ error' = "none"
    /\ existing' = <<>>
    /\ total_comments' = -1
    /\ api_calls' = <<>>
    /\ UNCHANGED <<Inputs, Remote>>

Next ==
    \/ GetPrDiff
    \/ GetLineRanges
    \/ SelectFiles
    \/ GetClangTidyWarnings
    \/ MakeFileLineLookup
    \/ MakeReview
    \/ PostLgtm
    \/ PostReview
    \/ Rerun

Spec == Init /\ [][Next]_vars

(***************************************************************************)
(* The two functions of the diff, on every diff text within the bound.     *)
(***************************************************************************)
InitDiff ==
    /\ raw_diff \in RawDiffs
    /\ tidy_output = <<>>
    /\ review_comments = <<>>
    /\ issue_comments = <<>>
    /\ pc = "start"
    /\ run = 1
    /\ InitLocals

NextDiff ==
    \/ GetPrDiff
    \/ GetLineRanges
    \/ SelectFiles
    \/ GetClangTidyWarnings
    \/ MakeFileLineLookup

SpecDiff == InitDiff /\ [][NextDiff]_vars

(***************************************************************************)
(* post_review alone, on every review and remote list within the bound.    *)
(***************************************************************************)
InitDedup ==
    /\ raw_diff = <<>>
    /\ tidy_output = <<>>
    /\ review_comments \in SeqsUpTo(DedupComments, MaxDedupLen)
    /\ issue_comments = <<>>
    /\ pc = "post"
    /\ run = 1
    /\ diff = <<>>
    /\ line_ranges = <<>>
    /\ files = <<>>
    /\ contents = <<>>
    /\ lookup = <<>>
    /\ \E cs \in SeqsUpTo(DedupComments, MaxDedupLen) \ {<<>>} :
          /\ review = [body |-> "clang-tidy made some suggestions",
                       event |-> "COMMENT", comments |-> cs]
          /\ created = review
    /\ error = "none"
    /\ existing = <<>>
    /\ total_comments = -1
    /\ api_calls = <<>>

SpecDedup == InitDedup /\ [][PostReview]_vars

(***************************************************************************)
(* Properties of the diff functions (checked under SpecDiff).              *)
(***************************************************************************)
\* The target file name without its 2-character prefix.
StrippedPath(file) == SubSeq(file.target_file, 3, Len(file.target_file))

\* The lines of every file of the diff whose stripped target path is path.
LinesOfPath(path) ==
    UNION {Range(FileLines(diff[k])) :
           k \in {j \in 1..Len(diff) : StrippedPath(diff[j]) = path}}

LookupBuilt == pc = "review"

\* C1: once make_file_line_lookup has run, every context or added line of
\* every file has lookup[path][target_line_no] = diff_line_no - 5, path being
\* the target file name without its 2-character prefix; the keys of
\* lookup[path] are target line numbers of context and added lines only, so
\* the line number of a removed line that is no such target line is absent.
C1_LookupComplete ==
    LookupBuilt =>
        \A k \in 1..Len(diff) :
            LET path == StrippedPath(diff[k])
                kept == {l \in LinesOfPath(path) : ~l.is_removed}
                gone == {l \in LinesOfPath(path) : l.is_removed}
            IN  /\ path \in DOMAIN lookup
                /\ \A l \in kept :
                      /\ l.target_line_no \in DOMAIN lookup[path]
                      /\ lookup[path][l.target_line_no] = l.diff_line_no - 5
                /\ DOMAIN lookup[path] = {l.target_line_no : l \in kept}
                /\ \A l \in gone :
                      (\A m \in kept : m.target_line_no # l.source_line_no)
                          => l.source_line_no \notin DOMAIN lookup[path]

\* A file with a context line, an added line and a removed line whose number
\* in the old file is no line of the lookup.
C1_Witness ==
    /\ LookupBuilt
    /\ \E k \in 1..Len(diff) :
          LET ls == Range(FileLines(diff[k]))
          IN  /\ \E l \in ls : l.is_added
              /\ \E l \in ls : ~l.is_added /\ ~l.is_removed
              /\ \E l \in ls : /\ l.is_removed
                               /\ l.source_line_no \notin
                                      DOMAIN lookup[StrippedPath(diff[k])]

RangesBuilt == pc \notin {"start", "ranges"}

\* The added target line numbers of the files with this stripped path.
AddedOfPath(path) == {l.target_line_no : l \in {x \in LinesOfPath(path) : x.is_added}}

EntriesOf(path) == {e \in 1..Len(line_ranges) : line_ranges[e].name = path}

\* C2: once get_line_ranges has run, each file with added lines has exactly
\* one entry, each entry belongs to a file of the diff, and the entry's
\* inclusive ranges cover exactly the file's added line numbers, ascending,
\* disjoint and never adjacent (next.start > prev.end + 1).
C2_RangesExact ==
    RangesBuilt =>
        /\ \A e \in 1..Len(line_ranges) :
              \E k \in 1..Len(diff) : StrippedPath(diff[k]) = line_ranges[e].name
        /\ \A k \in 1..Len(diff) :
              LET path == StrippedPath(diff[k])
                  added == AddedOfPath(path)
              IN  IF added = {} THEN EntriesOf(path) = {}
                  ELSE /\ Cardinality(EntriesOf(path)) = 1
                       /\ LET rs == line_ranges[CHOOSE e \in EntriesOf(path) : TRUE].lines
                          IN  /\ rs # <<>>
                              /\ \A i \in 1..Len(rs) : Len(rs[i]) = 2 /\ rs[i][1] <= rs[i][2]
                              /\ UNION {rs[i][1]..rs[i][2] : i \in 1..Len(rs)} = added
                              /\ \A i \in 1..Len(rs) - 1 : rs[i + 1][1] > rs[i][2] + 1

\* A file whose added lines make two ranges, one of them longer than a line.
C2_Witness ==
    /\ RangesBuilt
    /\ \E e \in 1..Len(line_ranges) :
          LET rs == line_ranges[e].lines
          IN  /\ Len(rs) >= 2
              /\ \E i \in 1..Len(rs) : rs[i][1] < rs[i][2]

(***************************************************************************)
(* Properties of post_review alone (checked under SpecDedup).              *)
(***************************************************************************)
Triple(c) == <<c.path, c.position, c.body>>

\* C5: after post_review the review holds exactly the comments it was given
\* whose (path, position, body) triple is the triple of no fetched remote
\* comment, in the order in which they were given.
C5_DedupIsDifference ==
    pc = "done_review" =>
        review.comments =
            SelectSeq(created.comments,
                      LAMBDA c : \A i \in 1..Len(existing) :
                                    Triple(c) # Triple(existing[i]))

\* A review of two comments: one is on the pull request already and is
\* removed, the other differs from a remote comment in its body only and
\* stays.
C5_Witness ==
    /\ pc = "done_review"
    /\ Len(created.comments) = 2
    /\ Len(review.comments) = 1
    /\ \E i \in 1..Len(existing) :
          /\ existing[i].path = review.comments[1].path
          /\ existing[i].position = review.comments[1].position
          /\ existing[i].body # review.comments[1].body

(***************************************************************************)
(* Properties of main (checked under Spec).  The records of the stream are *)
(* read here by counting colons, not by Split.                             *)
(***************************************************************************)
\* make_review returned a Review.
Reviewed == pc \in {"post", "done_lgtm", "done_review"}

\* make_review returned a Review or raised.
ReviewEnded == Reviewed \/ (pc = "crashed" /\ error # "CalledProcessError")

Mentions(line) == \E i \in 1..Len(line) : line[i] = "warning"

\* The marker lines with a leading path, and the lines without one.
Markers == {i \in 1..Len(contents) : Mentions(contents[i]) /\ contents[i][1] # "warning"}
Pathless == {i \in 1..Len(contents) : contents[i] # <<>> /\ contents[i][1] = "warning"}

MarkerSeq == SortedSeq(Markers)

Colons(line) == {i \in 1..Len(line) : line[i] = ":"}

\* The place of the n-th colon of a line that has one.
NthColon(line, n) ==
    CHOOSE i \in Colons(line) : Cardinality({j \in Colons(line) : j < i}) = n - 1

Short(line) == Cardinality(Colons(line)) < 3

FieldPath(line) == SubSeq(line, 1, NthColon(line, 1) - 1)
FieldLine(line) == SubSeq(line, NthColon(line, 1) + 1, NthColon(line, 2) - 1)
FieldMessage(line) == SubSeq(line, NthColon(line, 3) + 1, Len(line))

\* The first line after line i that mentions "warning", or the end of input.
NextMention(i) ==
    LET later == {j \in i + 1..Len(contents) : Mentions(contents[j])}
    IN  IF later = {} THEN Len(contents) + 1 ELSE Min(later)

\* The lines between marker line i and the next mention, as the body text.
BodyBetween(i) ==
    << <<>> >> \o
    [k \in 1..(NextMention(i) - i - 1) |->
        Replace(contents[i + k], FieldPath(contents[i]),
                relpath(FieldPath(contents[i])))]

\* The record of marker line i is well formed and is in the lookup.
Resolvable(i) ==
    LET line == contents[i]
    IN  /\ ~Short(line)
        /\ FieldPath(line) # <<>>
        /\ relpath(FieldPath(line)) \in DOMAIN lookup
        /\ IntOk(FieldLine(line))
        /\ int(FieldLine(line)) \in DOMAIN lookup[relpath(FieldPath(line))]

\* The record of marker line i has a path and a line, and the lookup has no
\* entry for them.
Absent(i) ==
    LET line == contents[i]
    IN  /\ ~Short(line)
        /\ FieldPath(line) # <<>>
        /\ \/ relpath(FieldPath(line)) \notin DOMAIN lookup
           \/ /\ IntOk(FieldLine(line))
              /\ int(FieldLine(line)) \notin DOMAIN lookup[relpath(FieldPath(line))]

\* C3: a returned Review has one comment for each marker line with a path,
\* in the order of the marker lines, and the body of each is made of its
\* message and of exactly the lines between it and the next line that
\* mentions "warning" (or the end of input).
C3_BodyUpToNextMarker ==
    Reviewed =>
        /\ Len(created.comments) = Len(MarkerSeq)
        /\ \A j \in 1..Len(MarkerSeq) :
              created.comments[j].body =
                  [message |-> Message(FieldMessage(contents[MarkerSeq[j]])),
                   fenced |-> StripText(dedent(BodyBetween(MarkerSeq[j])))]

\* A record followed by two indented context lines and then by a second
\* record: two comments, the first with both context lines as its body.
C3_Witness ==
    /\ pc = "post"
    /\ contents = <<LineA1, LineContext, LineCaret, LineB2>>
    /\ Len(created.comments) = 2
    /\ created.comments[1].body.fenced =
           <<<<"int", Space, "a.c", ";">>, <<Space, Space, "^">>>>
    /\ created.comments[2].body.fenced = << <<>> >>

\* C4: when the stream holds lines that start with "warning" and every marker
\* line with a path is well formed and in the lookup, make_review raises
\* nothing and returns exactly one comment for each marker line with a path,
\* in order: none for a line without a path, wherever it stands.
C4_SkipWithoutPath ==
    (ReviewEnded /\ Pathless # {} /\ \A m \in Markers : Resolvable(m)) =>
        /\ pc # "crashed"
        /\ error = "none"
        /\ Len(created.comments) = Cardinality(Markers)
        /\ \A j \in 1..Len(MarkerSeq) :
              /\ created.comments[j].path = relpath(FieldPath(contents[MarkerSeq[j]]))
              /\ created.comments[j].body.message =
                     Message(FieldMessage(contents[MarkerSeq[j]]))

\* A line without a path between two records: both records give a comment.
C4_Witness ==
    /\ pc = "post"
    /\ Len(contents) = 3
    /\ 2 \in Pathless
    /\ Markers = {1, 3}
    /\ Len(created.comments) = 2

\* Every comment of a returned Review has the position the lookup gives for
\* its record's path (relative to the root) and line.
PositionsFromLookup ==
    Reviewed =>
        \A j \in 1..Len(MarkerSeq) :
            LET line == contents[MarkerSeq[j]]
            IN  /\ created.comments[j].path = relpath(FieldPath(line))
                /\ created.comments[j].position =
                       lookup[relpath(FieldPath(line))][int(FieldLine(line))]

\* The run ended in make_review without a Review and without a remote write.
NoReviewNoPost ==
    /\ pc = "crashed"
    /\ error # "none"
    /\ created = NoReview
    /\ review = NoReview
    /\ api_calls = <<>>

\* C8 as stated: positions come from the lookup, and a record that is absent
\* from the lookup always ends the run in the lookup failure (KeyError), with
\* no Review and nothing posted.
C8_AbsentAlwaysKeyError ==
    /\ PositionsFromLookup
    /\ (ReviewEnded /\ \E m \in Markers : Absent(m)) =>
           (NoReviewNoPost /\ error = "KeyError")

\* C8 (amended): positions come from the lookup; a record that is absent from
\* the lookup ends the run in an error, with no Review and nothing posted;
\* the error is the lookup failure (KeyError) when the first marker line that
\* is not a resolvable record is an absent one, and the exception of an
\* earlier malformed marker line otherwise.
C8_AbsentEndsRun ==
    /\ PositionsFromLookup
    /\ (ReviewEnded /\ \E m \in Markers : Absent(m)) =>
           /\ NoReviewNoPost
           /\ error \in {"KeyError", "ValueError"}
           /\ LET bad == {m \in Markers : ~Resolvable(m)}
              IN  error = IF Absent(Min(bad)) THEN "KeyError" ELSE "ValueError"

\* A resolvable record followed by a record whose line is not in the diff:
\* the run ends in KeyError and the first record's comment is lost.
C8_Witness ==
    /\ NoReviewNoPost
    /\ error = "KeyError"
    /\ Len(contents) = 2
    /\ Markers = {1, 2}
    /\ Resolvable(1)
    /\ Absent(2)

\* C10: a marker line with a path and fewer than three colons ends the run in
\* an error with no Review; ValueError is raised only for a marker line with
\* fewer than three colons, an empty path or a line field that is no number;
\* and in a returned Review each comment's path is the text before the first
\* colon (made relative) and its message is everything after the third colon.
C10_FailFastAndSplit ==
    /\ (ReviewEnded /\ \E m \in Markers : Short(contents[m])) => NoReviewNoPost
    /\ (ReviewEnded /\ error = "ValueError") =>
           \E m \in Markers :
               \/ Short(contents[m])
               \/ FieldPath(contents[m]) = <<>>
               \/ ~IntOk(FieldLine(contents[m]))
    /\ Reviewed =>
           \A j \in 1..Len(MarkerSeq) :
               LET line == contents[MarkerSeq[j]]
               IN  /\ ~Short(line)
                   /\ created.comments[j].path = relpath(FieldPath(line))
                   /\ created.comments[j].body.message = Message(FieldMessage(line))

\* A resolvable record followed by "2 warnings generated.": ValueError, and
\* no Review although the first record was well formed.
C10_Witness ==
    /\ NoReviewNoPost
    /\ error = "ValueError"
    /\ Len(contents) = 2
    /\ Resolvable(1)
    /\ Cardinality(Colons(contents[1])) > 3
    /\ contents[2] = LineSummary

\* C7: from an empty stream make_review returns the Review with the fixed
\* body, the event COMMENT and no comment; and a run whose Review has no
\* comment ends in post_lgtm_comment, never in post_review or create_review.
C7_EmptyIsAllClean ==
    /\ (Reviewed /\ contents = <<>>) =>
           created = [body |-> "clang-tidy made some suggestions",
                      event |-> "COMMENT", comments |-> <<>>]
    /\ (pc \in {"done_lgtm", "done_review"} /\ created.comments = <<>>) =>
           /\ pc = "done_lgtm"
           /\ total_comments = -1
           /\ \A i \in 1..Len(api_calls) : api_calls[i] # "create_review"

\* An empty stream, acknowledged with the all-clean comment.
C7_Witness ==
    /\ pc = "done_lgtm"
    /\ contents = <<>>
    /\ created.comments = <<>>
    /\ api_calls = <<"create_issue_comment">>

\* C6: after post_review every comment of the Review is on the pull request;
\* and a post_review that finds all of them there already (a second posting
\* of the same Review) filters every comment out, reports 0 and writes
\* nothing.
C6_SecondPostIsEmpty ==
    pc = "done_review" =>
        /\ Range(created.comments) \subseteq Range(review_comments)
        /\ Range(created.comments) \subseteq Range(existing) =>
              /\ review.comments = <<>>
              /\ total_comments = 0
              /\ api_calls = <<>>
              /\ review_comments = existing

\* The second run of a Review of two comments, which the first run posted.
C6_Witness ==
    /\ run = 2
    /\ pc = "done_review"
    /\ Len(created.comments) = 2
    /\ existing = created.comments
    /\ total_comments = 0

LgtmCount == Cardinality({i \in 1..Len(issue_comments) : issue_comments[i] = BODY})

\* C9: the pull request never holds the all-clean text twice; a run of
\* post_lgtm_comment that found the text among the issue comments wrote
\* nothing, and one that did not find it created exactly one comment.
C9_LgtmOnce ==
    /\ LgtmCount <= 1
    /\ pc = "done_lgtm" =>
           IF \E i \in 1..Len(existing) : existing[i] = BODY
           THEN api_calls = <<>> /\ issue_comments = existing
           ELSE /\ api_calls = <<"create_issue_comment">>
                /\ issue_comments = Append(existing, BODY)

\* A second all-clean run: the text is there and nothing is written.
C9_Witness ==
    /\ run = 2
    /\ pc = "done_lgtm"
    /\ LgtmCount = 1
    /\ api_calls = <<>>
====
